---------------------------- MODULE Spec2Model ----------------------------
(***************************************************************************)
(* Annotation (circuits/core/src/annotation.rs): the three-variant value,  *)
(* its tag predicates, its ordered-choice parser and its printer.          *)
(*                                                                         *)
(* Text is a sequence of one-character strings.  A parser result is either *)
(* [ok |-> FALSE, ...] (nom's Err::Error) or [ok |-> TRUE, rest, value]    *)
(* (nom's Ok((rest, value))).  The field "attempts" of an Annotation       *)
(* result lists the alternatives alt() ran, in the order it ran them.      *)
(*                                                                         *)
(* Type, Mode, Identifier and Record live in sibling files of the crate;   *)
(* their grammars are modelled from the specification (sections 3, 4.1, 8) *)
(* and from the tests of annotation.rs that pin them (lines 92-104).       *)
(***************************************************************************)
EXTENDS Naturals, Sequences, FiniteSets

\* Longest input, counted in lexicon pieces.
MaxPieces == 3

---------------------------------------------------------------------------
\* Characters

Letters ==
    {"a", "b", "c", "d", "e", "f", "g", "h", "i", "j", "k", "l", "m",
     "n", "o", "p", "q", "r", "s", "t", "u", "v", "w", "x", "y", "z"}

Digits == {"0", "1", "2", "3", "4", "5", "6", "7", "8", "9"}

\* Characters that may continue an identifier.
IdentifierChars == Letters \cup Digits \cup {"_"}

---------------------------------------------------------------------------
\* Collaborators: Mode, Type, Record, Identifier

\* The visibility modes, in the order Mode::parse tries them.
Modes == <<"Constant", "Public", "Private">>

\* Display of a mode.
ModeName(mode) ==
    CASE mode = "Constant" -> <<"c", "o", "n", "s", "t", "a", "n", "t">>
      [] mode = "Public"   -> <<"p", "u", "b", "l", "i", "c">>
      [] mode = "Private"  -> <<"p", "r", "i", "v", "a", "t", "e">>

\* The primitive types, in the order Type::parse tries them.
TypeVariants == <<"Field", "U8">>

\* The type_name() of a primitive type.
TypeName(variant) ==
    CASE variant = "Field" -> <<"f", "i", "e", "l", "d">>
      [] variant = "U8"    -> <<"u", "8">>

\* Record::type_name()
RecordTypeName == <<"r", "e", "c", "o", "r", "d">>

\* The reserved keywords: every primitive type name, and the record keyword.
Keywords ==
    {TypeName(TypeVariants[i]) : i \in 1..Len(TypeVariants)} \cup {RecordTypeName}

Err == [ok |-> FALSE]

Ok(rest, value) == [ok |-> TRUE, rest |-> rest, value |-> value]

\* The text after the first n characters.
Drop(n, string) == SubSeq(string, n + 1, Len(string))

\* nom's tag(t): the input starts with t; the rest is what follows.
Tag(t, string) ==
    IF Len(string) >= Len(t) /\ SubSeq(string, 1, Len(t)) = t
    THEN Ok(Drop(Len(t), string), t)
    ELSE Err

\* Mode::parse: the first mode whose name the input starts with.
RECURSIVE ModeParseFrom(_, _)
ModeParseFrom(i, string) ==
    IF i > Len(Modes) THEN Err
    ELSE LET r == Tag(ModeName(Modes[i]), string)
         IN  IF r.ok THEN Ok(r.rest, Modes[i]) ELSE ModeParseFrom(i + 1, string)

ModeParse(string) == ModeParseFrom(1, string)

\* One alternative of Type::parse: <type_name> "." <mode>.
TypeParseVariant(variant, string) ==
    LET n == Tag(TypeName(variant), string)
    IN  IF ~n.ok THEN Err
        ELSE LET d == Tag(<<".">>, n.rest)
             IN  IF ~d.ok THEN Err
                 ELSE LET m == ModeParse(d.rest)
                      IN  IF ~m.ok THEN Err
                          ELSE Ok(m.rest, [variant |-> variant, mode |-> m.value])

\* Type::parse: the first primitive type that matches with a mode suffix.
RECURSIVE TypeParseFrom(_, _)
TypeParseFrom(i, string) ==
    IF i > Len(TypeVariants) THEN Err
    ELSE LET r == TypeParseVariant(TypeVariants[i], string)
         IN  IF r.ok THEN r ELSE TypeParseFrom(i + 1, string)

TypeParse(string) == TypeParseFrom(1, string)

\* Display of a Type: <type_name>.<mode>
TypeFmt(type_) == TypeName(type_.variant) \o <<".">> \o ModeName(type_.mode)

\* The length of the longest prefix of the input made of identifier characters.
RECURSIVE IdentifierSpan(_, _)
IdentifierSpan(n, string) ==
    IF n < Len(string) /\ string[n + 1] \in IdentifierChars
    THEN IdentifierSpan(n + 1, string)
    ELSE n

\* Identifier::parse: a letter, then identifier characters up to the first
\* character that cannot continue an identifier; a reserved keyword is refused.
IdentifierParse(string) ==
    IF string = <<>> \/ string[1] \notin Letters THEN Err
    ELSE LET n == IdentifierSpan(1, string)
             name == SubSeq(string, 1, n)
         IN  IF name \in Keywords THEN Err ELSE Ok(Drop(n, string), name)

\* Display of an Identifier: its name.
IdentifierFmt(identifier) == identifier

---------------------------------------------------------------------------
\* Annotation

Literal(type_) == [tag |-> "Literal", type_ |-> type_]

Composite(identifier) == [tag |-> "Composite", identifier |-> identifier]

Record == [tag |-> "Record"]

is_literal(self) == self.tag = "Literal"

is_composite(self) == self.tag = "Composite"

is_record_lax(self) == self.tag # "Literal"

is_record(self) == self.tag = "Record"

\* One alternative of Annotation::parse, with its map().
Production(name, string) ==
    CASE name = "Type" ->
            LET r == TypeParse(string)
            IN  IF r.ok THEN Ok(r.rest, Literal(r.value)) ELSE Err
      [] name = "Identifier" ->
            LET r == IdentifierParse(string)
            IN  IF r.ok THEN Ok(r.rest, Composite(r.value)) ELSE Err
      [] name = "Record" ->
            LET r == Tag(RecordTypeName, string)
            IN  IF r.ok THEN Ok(r.rest, Record) ELSE Err

\* nom's alt(): run the alternatives in order and return the first success;
\* fail when none is left.  "tried" are the alternatives already run.
RECURSIVE Alt(_, _, _)
Alt(alternatives, tried, string) ==
    IF alternatives = <<>>
    THEN [ok |-> FALSE, attempts |-> tried]
    ELSE LET name == Head(alternatives)
             r == Production(name, string)
         IN  IF r.ok
             THEN [ok |-> TRUE, rest |-> r.rest, value |-> r.value,
                   attempts |-> Append(tried, name)]
             ELSE Alt(Tail(alternatives), Append(tried, name), string)

\* The alternatives of Annotation::parse (order matters).
Alternatives == <<"Type", "Identifier", "Record">>

\* Mutants of Annotation::parse.
AnnotationParseRecordFirst(string) ==
    Alt(<<"Type", "Record", "Identifier">>, <<>>, string)

AnnotationParseNoType(string) ==
    Alt(<<"Identifier", "Record">>, <<>>, string)

AnnotationParseNoRecord(string) ==
    Alt(<<"Type", "Identifier">>, <<>>, string)

AnnotationParseFallback(string) ==
    LET r == Alt(Alternatives, <<>>, string)
    IN  IF r.ok THEN r
        ELSE [ok |-> TRUE, rest |-> string, value |-> Record,
              attempts |-> r.attempts]

AnnotationParseAllConsuming(string) ==
    LET r == Alt(Alternatives, <<>>, string)
    IN  IF r.ok /\ r.rest # <<>>
        THEN [ok |-> FALSE, attempts |-> r.attempts]
        ELSE r

AnnotationParseRecordAsComposite(string) ==
    LET r == Alt(Alternatives, <<>>, string)
    IN  IF r.ok /\ r.value.tag = "Record"
        THEN [r EXCEPT !.value = Composite(RecordTypeName)]
        ELSE r

\* Annotation::parse
AnnotationParse(string) == Alt(Alternatives, <<>>, string)

\* Mutant of Annotation::fmt: a literal printed without its mode.
AnnotationFmtNoMode(self) ==
    CASE self.tag = "Literal"   -> TypeName(self.type_.variant)
      [] self.tag = "Composite" -> IdentifierFmt(self.identifier)
      [] self.tag = "Record"    -> RecordTypeName

\* Annotation::fmt
AnnotationFmt(self) ==
    CASE self.tag = "Literal"   -> TypeFmt(self.type_)
      [] self.tag = "Composite" -> IdentifierFmt(self.identifier)
      [] self.tag = "Record"    -> RecordTypeName

---------------------------------------------------------------------------
\* Inputs

\* The lexicon the inputs are built of.
Pieces ==
    Keywords
    \cup {ModeName(Modes[i]) : i \in 1..Len(Modes)}
    \cup {<<"s", "i", "g", "n", "a", "t", "u", "r", "e">>}
    \cup {<<".">>, <<" ">>, <<"x">>, <<"1">>}

RECURSIVE Concat(_)
Concat(pieces) ==
    IF pieces = <<>> THEN <<>> ELSE Head(pieces) \o Concat(Tail(pieces))

\* Every text made of at most MaxPieces pieces.
Inputs ==
    {Concat(ps) : ps \in UNION {[1..n -> Pieces] : n \in 0..MaxPieces}}

\* A well-formed name that is not reserved, stated without the parser.
IsName(string) ==
    /\ string # <<>>
    /\ string[1] \in Letters
    /\ \A i \in 1..Len(string) : string[i] \in IdentifierChars
    /\ string \notin Keywords

Types ==
    {[variant |-> TypeVariants[i], mode |-> Modes[j]] :
        i \in 1..Len(TypeVariants), j \in 1..Len(Modes)}

\* The Annotation values: every literal, every composite holding a
\* non-reserved identifier, and the record.
Annotations ==
    {Literal(t) : t \in Types}
    \cup {Composite(n) : n \in {s \in Inputs : IsName(s)}}
    \cup {Record}

---------------------------------------------------------------------------
\* State

VARIABLES
    origin,     \* "string": a text is parsed, then printed;
                \* "value": an Annotation is printed, then parsed
    string,     \* the text handed to Annotation::parse, or NoText
    self,       \* the Annotation handed to the printer and predicates, or None
    result,     \* what Annotation::parse returned, or None
    output,     \* what the printer wrote, or NoText
    tags,       \* what the three predicates returned, or None
    pc

vars == <<origin, string, self, result, output, tags, pc>>

\* No Annotation, or no parser result, yet.
None == [tag |-> "None"]

\* No text yet: not a text, whose elements are single characters.
NoText == <<"(none)">>

Init ==
    /\ origin \in {"string", "value"}
    /\ IF origin = "string"
       THEN string \in Inputs /\ self = None
       ELSE string = NoText /\ self \in Annotations
    /\ result = None
    /\ output = NoText
    /\ tags = None
    /\ pc = "start"

\* Annotation::parse(string) on a given text.
Parse ==
    /\ origin = "string" /\ pc = "start"
    /\ result' = AnnotationParse(string)
    /\ self' = IF result'.ok THEN result'.value ELSE None
    /\ pc' = IF result'.ok THEN "parsed" ELSE "error"
    /\ UNCHANGED <<origin, string, output, tags>>

\* The parsed Annotation is printed.
FmtParsed ==
    /\ origin = "string" /\ pc = "parsed"
    /\ output' = AnnotationFmt(self)
    /\ pc' = "done"
    /\ UNCHANGED <<origin, string, self, result, tags>>

\* A given Annotation is printed.
Fmt ==
    /\ origin = "value" /\ pc = "start"
    /\ output' = AnnotationFmt(self)
    /\ string' = output'
    /\ pc' = "printed"
    /\ UNCHANGED <<origin, self, result, tags>>

\* Annotation::parse on the printed text.
ParsePrinted ==
    /\ origin = "value" /\ pc = "printed"
    /\ result' = AnnotationParse(string)
    /\ pc' = IF result'.ok THEN "done" ELSE "error"
    /\ UNCHANGED <<origin, string, self, output, tags>>

\* is_literal, is_composite and is_record on the Annotation at hand.
Inspect ==
    /\ self # None /\ tags = None
    /\ tags' = [is_literal   |-> is_literal(self),
                is_composite |-> is_composite(self),
                is_record    |-> is_record(self)]
    /\ UNCHANGED <<origin, string, self, result, output, pc>>

Next == Parse \/ FmtParsed \/ Fmt \/ ParsePrinted \/ Inspect

Spec == Init /\ [][Next]_vars

TypeOK ==
    /\ origin \in {"string", "value"}
    /\ pc \in {"start", "parsed", "printed", "done", "error"}
    /\ (result # None) <=> (pc \in {"parsed", "done", "error"})

---------------------------------------------------------------------------
\* Properties

\* Annotation::parse has been applied to "string".
Parsed == result # None

\* <type_name>.<mode>
LiteralText(variant, mode) == TypeName(variant) \o <<".">> \o ModeName(mode)

\* The canonical texts: a type name with a mode, a non-reserved name, "record".
IsCanonical(text) ==
    \/ \E i \in 1..Len(TypeVariants), j \in 1..Len(Modes) :
          text = LiteralText(TypeVariants[i], Modes[j])
    \/ IsName(text)
    \/ text = RecordTypeName

IsSuffix(rest, text) ==
    Len(rest) <= Len(text) /\ Drop(Len(text) - Len(rest), text) = rest

\* C1: parse and Display round-trip.  A canonical text parses with nothing
\* left over and the parsed value prints as that text; every Annotation value
\* prints as a text that parses, with nothing left over, to an equal value.
C1_RoundTrip ==
    /\ (origin = "string" /\ IsCanonical(string)) =>
          /\ pc # "error"
          /\ Parsed => result.ok /\ result.rest = <<>>
          /\ output # NoText => output = string
    /\ origin = "value" =>
          /\ pc # "error"
          /\ Parsed => result.ok /\ result.rest = <<>> /\ result.value = self

C1_Witness ==
    /\ origin = "value" /\ pc = "done"
    /\ self = Literal([variant |-> "Field", mode |-> "Private"])
    /\ string = LiteralText("Field", "Private")
    /\ result.value = self

\* C2: parse is an ordered choice over Type, Identifier, Record.  The result is
\* that of the first production that succeeds on a prefix of the input, no
\* production after it is run, and parse fails exactly when all three fail.
C2_OrderedChoice ==
    Parsed =>
        LET t == TypeParse(string)
            i == IdentifierParse(string)
            r == Tag(RecordTypeName, string)
        IN  /\ t.ok =>
                /\ result.ok /\ result.value = Literal(t.value)
                /\ result.rest = t.rest
                /\ result.attempts = <<"Type">>
            /\ (~t.ok /\ i.ok) =>
                /\ result.ok /\ result.value = Composite(i.value)
                /\ result.rest = i.rest
                /\ result.attempts = <<"Type", "Identifier">>
            /\ (~t.ok /\ ~i.ok /\ r.ok) =>
                /\ result.ok /\ result.value = Record
                /\ result.rest = r.rest
                /\ result.attempts = <<"Type", "Identifier", "Record">>
            /\ ~result.ok <=> (~t.ok /\ ~i.ok /\ ~r.ok)
            /\ ~result.ok => pc = "error" /\ (origin = "string" => self = None)

C2_Witness ==
    /\ Parsed /\ result.ok
    /\ result.attempts = <<"Type", "Identifier">>
    /\ result.rest # <<>>

\* C3: the text t.m of a primitive type name t and a mode m parses to the
\* Literal of exactly t and m, with nothing left over.
C3_LiteralWithMode ==
    \A i \in 1..Len(TypeVariants), j \in 1..Len(Modes) :
        (Parsed /\ string = LiteralText(TypeVariants[i], Modes[j])) =>
            /\ result.ok
            /\ result.value = Literal([variant |-> TypeVariants[i], mode |-> Modes[j]])
            /\ result.rest = <<>>

C3_Witness ==
    /\ origin = "string" /\ Parsed
    /\ string = LiteralText("U8", "Public")
    /\ result.value = Literal([variant |-> "U8", mode |-> "Public"])
    /\ result.rest = <<>>

\* C4: a name that is not reserved parses to the Composite of that name, with
\* nothing left over.
C4_CompositeName ==
    (Parsed /\ IsName(string)) =>
        result.ok /\ result.value = Composite(string) /\ result.rest = <<>>

C4_Witness ==
    /\ origin = "string" /\ Parsed
    /\ string = <<"s", "i", "g", "n", "a", "t", "u", "r", "e">>
    /\ result.value = Composite(string)

\* C5: the text "record" parses to Record with nothing left over, although the
\* Identifier production runs before the Record production.
C5_RecordKeyword ==
    (Parsed /\ string = RecordTypeName) =>
        /\ result.ok /\ result.value = Record /\ result.rest = <<>>
        /\ result.attempts = <<"Type", "Identifier", "Record">>

C5_Witness ==
    /\ origin = "string" /\ pc = "parsed"
    /\ string = RecordTypeName
    /\ self = Record

\* C6: a bare primitive type name, with no mode, is a syntax error: all three
\* productions fail and no Annotation is returned.
C6_BareTypeNameFails ==
    \A i \in 1..Len(TypeVariants) :
        (Parsed /\ string = TypeName(TypeVariants[i])) =>
            /\ ~result.ok
            /\ result.attempts = <<"Type", "Identifier", "Record">>
            /\ pc = "error" /\ self = None

C6_Witness ==
    /\ origin = "string" /\ pc = "error"
    /\ string = TypeName("Field")

\* C7: exactly one of is_literal, is_composite, is_record is true of an
\* Annotation, and it is the one of the Annotation's variant.
C7_ExactlyOneTag ==
    tags # None =>
        /\ tags.is_literal <=> self.tag = "Literal"
        /\ tags.is_composite <=> self.tag = "Composite"
        /\ tags.is_record <=> self.tag = "Record"
        /\ Cardinality({f \in {"is_literal", "is_composite", "is_record"} : tags[f]}) = 1

C7_Witness ==
    /\ tags # None /\ tags.is_composite
    /\ origin = "value" /\ self.tag = "Composite"

\* C8: parse does not require full consumption.  A non-reserved name followed
\* by a character that cannot continue an identifier parses to the Composite of
\* the name, and what follows the name is returned; whenever parse succeeds,
\* what it returns as the rest is a suffix of the input.
C8_Remainder ==
    Parsed =>
        /\ \A k \in 1..Len(string) :
              (/\ k < Len(string)
               /\ IsName(SubSeq(string, 1, k))
               /\ string[k + 1] \notin IdentifierChars) =>
                  /\ result.ok
                  /\ result.value = Composite(SubSeq(string, 1, k))
                  /\ result.rest = Drop(k, string)
        /\ result.ok => IsSuffix(result.rest, string)

C8_Witness ==
    /\ Parsed /\ result.ok
    /\ string = <<"s", "i", "g", "n", "a", "t", "u", "r", "e">>
                    \o <<".">> \o ModeName("Private")
    /\ result.value.tag = "Composite"
    /\ result.rest = <<".">> \o ModeName("Private")

\* C9: a Composite returned by parse never holds a reserved keyword, also when
\* the input starts with one.
C9_CompositeNotReserved ==
    (Parsed /\ result.ok /\ result.value.tag = "Composite") =>
        result.value.identifier \notin Keywords

C9_Witness ==
    /\ Parsed /\ result.ok /\ result.value.tag = "Composite"
    /\ \E k \in Keywords : Tag(k, string).ok
    /\ result.rest # <<>>

=============================================================================
